---- MODULE Spec2Model ----
(***************************************************************************)
(* The process scheduler of the Inko virtual machine: a pool of            *)
(* ProcessWorker threads (vm/src/scheduler/process_worker.rs), each owning *)
(* a Queue with an internal part and an external inbox, sharing a          *)
(* PoolState with a liveness flag, a global queue and a park/wake          *)
(* primitive.  Every worker is a sequential thread; its position in the    *)
(* code is pc[w], and every action below is one atomic step of one thread. *)
(*                                                                         *)
(* Queue, PoolState, the Worker trait's default methods and Machine::run   *)
(* are called by process_worker.rs but defined elsewhere; what they do is  *)
(* taken from the design document (sections 4.1 and 4.2).                  *)
(*                                                                         *)
(* The instruction handlers of vm/src/vm/instructions/code_execution.rs    *)
(* follow: run_block on the call stack of one process (ExecSpec), and      *)
(* parse_file and file_parsed of two processes on the bytecode file        *)
(* registry behind its reader/writer lock (FileSpec).                      *)
(*                                                                         *)
(* Last comes the compiler's Builder (compiler/src/tir/builder.rs): how    *)
(* import and build call each other over the modules map (ImportSpec).     *)
(***************************************************************************)
EXTENDS Naturals, FiniteSets, Sequences, TLC

\* The configured number of ProcessWorkers of the pool; they are numbered
\* 0 .. NWorkers - 1 (the scheduler's tests use queues[0] and queues[1]).
NWorkers == 2

\* Number of processes that are scheduled over a run of the pool.
MaxJobs == 4

Workers == 0 .. (NWorkers - 1)

Jobs == 1 .. MaxJobs

\* "No job": Option::None for a job.
None == 0

\* enum Mode
Modes == {"Normal", "Exclusive"}

VARIABLES
    alive,      \* PoolState: the pool-wide liveness flag
    global,     \* PoolState: the global queue
    internal,   \* Queue, per worker: the internal (owner push/pop, stealable) part
    external,   \* Queue, per worker: the external inbox (multi-producer)
    mode,       \* ProcessWorker.mode
    pc,         \* per worker thread: its position in ProcessWorker's code
    cur,        \* per worker: the process it is executing inside process_job
    hand,       \* per worker: a job taken out of a queue and not yet pushed on
    scheduled,  \* number of processes handed to the scheduler so far
    runs,       \* per process: number of times process_job was called with it
    curSrc,     \* per worker: the queue part the executing process was taken from
    curMode,    \* per worker: its mode when it took the executing process
    tried,      \* per worker: the sources this iteration tried and found empty, in order
    before,     \* per worker, inside enter_exclusive_mode: the jobs its queue held at the call
    pinned,     \* per worker, inside enter_exclusive_mode: those of them in the external inbox
    atShutdown, \* the number of processes scheduled before the liveness flag flipped
    block,      \* the Block object a process invokes: its CompiledCode's arity and its binding
    stack,      \* Process: the call stack of ExecutionContexts, the top one last
    heap,       \* the Bindings that are alive, by identity
    line,       \* Process: the source line the process is at
    instr,      \* the RunBlock instruction the process executed last
    result,     \* the InstructionResult of the instruction executed last
    file_registry, \* machine.file_registry: per path the cached CompiledCode
    inserting,  \* the paths whose registry entry is being written
    rwlock,     \* the RwLock around the registry: its writer and its readers
    disk,       \* per path: whether a well-formed bytecode file is there
    ip,         \* per process: its position inside parse_file / file_parsed
    operands,   \* per process: the instruction it is executing or executed last
    registers,  \* per process: the registers of its current context
    temp,       \* per process: the local variables of the handler
    outcome,    \* per process: the InstructionResult of its last instruction
    parses,     \* per path: how often the parse routine ran
    loaded,     \* per path: how often the parse routine produced a CompiledCode
    returned,   \* per path: the CompiledCode objects get_or_set has returned
    executed,   \* per process: the number of instructions it has started
    depth,      \* per process: the depth of its call stack
    bindings,   \* the Bindings made by Binding::new(), by identity: their locals
    modules,    \* Builder.modules: per module name no entry, None or Some(module)
    frames,     \* the calls of Builder::build in progress, the innermost last
    builds,     \* per module name: how often Builder::build was called for it
    started,    \* whether build_main was called
    expression  \* the Expression the last import returned

vars == <<alive, global, internal, external, mode, pc, cur, hand,
          scheduled, runs, curSrc, curMode, tried, before, pinned, atShutdown,
          block, stack, heap, line, instr, result,
          file_registry, inserting, rwlock, disk, ip, operands, registers, temp,
          outcome, parses, loaded, returned, executed, depth, bindings,
          modules, frames, builds, started, expression>>

\* The state of the scheduler.
sched == <<alive, global, internal, external, mode, pc, cur, hand,
           scheduled, runs, curSrc, curMode, tried, before, pinned, atShutdown>>

\* The state of the process whose instructions are executed.
exec == <<block, stack, heap, line, instr, result>>

\* The bytecode file registry and the processes that use it.
files == <<file_registry, inserting, rwlock, disk, ip, operands, registers, temp,
           outcome, parses, loaded, returned, executed, depth, bindings>>

\* The compiler's Builder.
comp == <<modules, frames, builds, started, expression>>

queues == <<global, internal, external>>

running == <<cur, runs, curSrc, curMode>>

marks == <<before, pinned, atShutdown>>

\* ------------------------------------------------------------------------
\* The compiler's Builder: the names of the modules of a program.

\* The names of the modules; the application's main module is the first.
ModuleNames == 1 .. 3

MainModule == 1

\* The number of import expressions in the source of one module.
MaxImports == 2

\* Builder::new: no module in the map, nothing built.
BuilderNew ==
    /\ modules = [m \in ModuleNames |-> "absent"]
    /\ frames = <<>>
    /\ builds = [m \in ModuleNames |-> 0]
    /\ started = FALSE
    /\ expression = "none"

\* ------------------------------------------------------------------------
\* The bytecode file registry: paths, processes and the values they handle.

\* The number of instructions a process executes on the registry.
MaxInstructions == 2

\* The processes, on different workers, that execute ParseFile and FileParsed.
Procs == 1 .. 2

\* The paths of bytecode files.
Paths == 1 .. 2

\* "No CompiledCode": the registry has no entry for the path.
NoCode == 0

\* "No process": the RwLock has no writer.
NoProc == 0

\* A register nothing was written to.
Nothing == [kind |-> "unset", id |-> 0, binding |-> 0]

\* A string object holding path p.
String(p) == [kind |-> "string", id |-> p, binding |-> 0]

\* machine.state.true_object and machine.state.false_object
Boolean(b) == [kind |-> IF b THEN "true" ELSE "false", id |-> 0, binding |-> 0]

\* BlockObject without the CompiledCode.
BlockObjectNoCode(code, b) == [kind |-> "block", id |-> NoCode, binding |-> b]

\* object_value::block(Block::new(code, binding))
BlockObject(code, b) == [kind |-> "block", id |-> code, binding |-> b]

\* The ParseFile and FileParsed instructions: arg(0) is the register for the
\* result, arg(1) the register holding the path.
FileInstructions == [op : {"ParseFile", "FileParsed"}, dest : {0}, path : 0 .. 2]

\* The handler's local variables before it has assigned any.
NoTemp == [path |-> 0, code |-> NoCode, err |-> FALSE, found |-> FALSE]

\* ------------------------------------------------------------------------
\* Values, registers, bindings, contexts and instructions.

\* The largest declared argument count of a block.
MaxArguments == 2

\* The largest number of argument registers an instruction supplies.
MaxGiven == 3

\* The registers of an ExecutionContext's register file.
Registers == 0 .. 2

\* "No register": Option::None for a return register.
NoRegister == 3

\* "No binding": a Binding without parent.
NoBinding == 0

\* instruction.line: the source line of the RunBlock instructions followed.
InstructionLine == 2

\* A register nothing was written to.
Unset == [kind |-> "unset", id |-> 0, elems |-> <<>>]

\* The pointer to the Block object.
BlockPointer == [kind |-> "block", id |-> 0, elems |-> <<>>]

\* A pointer to a plain object.
Object(i) == [kind |-> "object", id |-> i, elems |-> <<>>]

\* A pointer to an array of the given objects.
Array(s) == [kind |-> "array", id |-> 0, elems |-> s]

\* The plain objects (the tests use the true and the false object).
Objects == {Object(1), Object(2)}

\* All sequences over S of length 0 .. n.
SeqUpTo(S, n) == UNION {[1 .. k -> S] : k \in 0 .. n}

\* The RunBlock instructions: the source line, the register for the result, the register holding the block, the registers of the arguments.
Instructions ==
    [line : {InstructionLine}, dest : {0, 2}, block : 0 .. 1, args : SeqUpTo(1 .. 2, MaxGiven)]

\* The top ExecutionContext of the call stack.
context == stack[Len(stack)]

\* Process::get_register on the current context; an unset register is an error.
get_register(r) == context.regs[r]

\* let arg_count = instruction.arguments.len() - arg_offset;
arg_count(i) == Len(i.args)

\* Block::arguments
arguments == block.total

\* Block::required_arguments
required_arguments == block.required

\* Block::has_rest_argument
has_rest_argument == block.rest

\* Block::locals
code_locals == block.locals

\* ------------------------------------------------------------------------
\* Queue<T> and PoolState<T>: the operations ProcessWorker calls.

\* Queue::has_local_jobs
has_local_jobs(w) == internal[w] # {}

\* has_external_jobs never seeing a job in the inbox.
has_external_jobs_never(w) == FALSE

\* Queue::has_external_jobs
has_external_jobs(w) == external[w] # {}

\* PoolState::has_global_jobs
has_global_jobs == global # {}

\* PoolState::is_alive
is_alive == alive

\* Queue::pop (and a stealer's take): job j leaves w's internal queue.
pop(w, j) == [internal EXCEPT ![w] = @ \ {j}]

\* Queue::push_internal: job j enters w's internal queue.
push_internal(w, j) == [internal EXCEPT ![w] = @ \cup {j}]

\* Queue::pop_external_job: job j leaves w's external inbox.
pop_external_job(w, j) == [external EXCEPT ![w] = @ \ {j}]

\* Queue::push_external: job j enters w's external inbox.
push_external(w, j) == [external EXCEPT ![w] = @ \cup {j}]

\* Queue::move_external_jobs drains the external inbox into the internal queue.
move_external_jobs(w) ==
    /\ internal' = [internal EXCEPT ![w] = @ \cup external[w]]
    /\ external' = [external EXCEPT ![w] = {}]

\* PoolState::push_global
push_global(j) == global \cup {j}

\* PoolState::pop_global (and a stealer's take from the global queue)
pop_global(j) == global \ {j}

\* Victims with worker 0 as the one victim every stealer targets.
VictimsAlwaysFirst(w) == {v \in {0} \ {w} : has_local_jobs(v)}

\* The workers whose internal queue a steal by w finds a job in.
Victims(w) == {v \in Workers \ {w} : has_local_jobs(v)}

\* ------------------------------------------------------------------------
\* ProcessWorker

\* NormalParkCondition looking at the external inbox only.
NormalParkConditionInboxOnly(w) == ~has_external_jobs(w)

\* NormalParkCondition looking at the global queue only.
NormalParkConditionGlobalOnly(w) == ~has_global_jobs

\* The closure normal_iteration hands to park_while.
NormalParkCondition(w) == ~has_global_jobs /\ ~has_external_jobs(w)

\* ExclusiveParkCondition with the closure of normal_iteration.
ExclusiveParkConditionAsNormal(w) == ~has_global_jobs /\ ~has_external_jobs(w)

\* The closure exclusive_iteration hands to park_while.
ExclusiveParkCondition(w) == ~has_external_jobs(w)

\* The condition a worker parks on: that of the iteration that parks.
ParkCondition(w) ==
    IF mode[w] = "Normal" THEN NormalParkCondition(w)
    ELSE ExclusiveParkCondition(w)

\* ShouldPark without the test of the liveness flag.
ShouldParkWhenDead(w) == ParkCondition(w)

\* PoolState::park_while blocks while the pool is alive and the condition holds.
ShouldPark(w) == is_alive /\ ParkCondition(w)

\* NormalAfter with the global queue tried before the other workers' queues.
NormalAfterGlobalFirst(step, ok) ==
    IF ok THEN "run"
    ELSE CASE step = "n_local"  -> "n_global"
           [] step = "n_global" -> "n_steal"
           [] step = "n_steal"  -> "n_move"
           [] step = "n_move"   -> "n_park"

\* normal_iteration: where control goes after the step at pc `step`, which
\* did (ok) or did not find a job.  Finding one returns from the iteration.
NormalAfter(step, ok) ==
    IF ok THEN "run"
    ELSE CASE step = "n_local"  -> "n_steal"
           [] step = "n_steal"  -> "n_move"
           [] step = "n_move"   -> "n_global"
           [] step = "n_global" -> "n_park"

\* ExclusiveAfter falling through to the global queue before it parks.
ExclusiveAfterGlobal(step, ok) ==
    IF ok THEN "run"
    ELSE CASE step = "x_local"  -> "x_ext"
           [] step = "x_ext"    -> "n_global"
           [] step = "n_global" -> "x_park"

\* ExclusiveAfter draining the inbox, as normal_iteration does, instead of popping from it.
ExclusiveAfterDrain(step, ok) ==
    IF ok THEN "run"
    ELSE CASE step = "x_local" -> "n_move"
           [] step = "x_ext"   -> "x_park"

\* exclusive_iteration: where control goes after the step at pc `step`.
ExclusiveAfter(step, ok) ==
    IF ok THEN "run"
    ELSE CASE step = "x_local" -> "x_ext"
           [] step = "x_ext"   -> "x_park"

\* The source a step draws from, as recorded in `tried`.
SourceOf(step) ==
    CASE step \in {"n_local", "x_local"} -> "internal"
      [] step = "n_steal"  -> "steal"
      [] step = "n_move"   -> "external"
      [] step = "x_ext"    -> "external"
      [] step = "n_global" -> "global"

\* The step at pc[w] found nothing: control moves on within the iteration.
Fail(w) ==
    /\ pc' = [pc EXCEPT ![w] = IF pc[w] \in {"x_local", "x_ext"}
                                THEN ExclusiveAfter(pc[w], FALSE)
                                ELSE NormalAfter(pc[w], FALSE)]
    /\ tried' = [tried EXCEPT ![w] = Append(@, SourceOf(pc[w]))]

\* Worker::process_job is entered with job j, taken from queue part s.
process_job(w, j, s) ==
    /\ cur' = [cur EXCEPT ![w] = j]
    /\ runs' = [runs EXCEPT ![j] = IF @ < 2 THEN @ + 1 ELSE @]
    /\ curSrc' = [curSrc EXCEPT ![w] = s]
    /\ curMode' = [curMode EXCEPT ![w] = mode[w]]
    /\ pc' = [pc EXCEPT ![w] = "job"]
    /\ tried' = [tried EXCEPT ![w] = <<>>]

\* IterationStart with normal_iteration stealing before it looks at its own queue.
IterationStartStealFirst(w) == IF mode[w] = "Normal" THEN "n_steal" ELSE "x_local"

\* run: match self.mode { Normal => normal_iteration(), Exclusive => ... }
IterationStart(w) == IF mode[w] = "Normal" THEN "n_local" ELSE "x_local"

\* RunLoop without the test of the liveness flag.
RunLoopForever(w) ==
    /\ pc[w] = "run"
    /\ pc' = [pc EXCEPT ![w] = IterationStart(w)]
    /\ UNCHANGED <<alive, queues, mode, hand, scheduled, running, tried, marks, exec, files, comp>>

\* run: while self.state.is_alive() { ... }
RunLoop(w) ==
    /\ pc[w] = "run"
    /\ pc' = [pc EXCEPT ![w] = IF is_alive THEN IterationStart(w) ELSE "stopped"]
    /\ UNCHANGED <<alive, queues, mode, hand, scheduled, running, tried, marks, exec, files, comp>>

\* normal_iteration / exclusive_iteration: if self.process_local_jobs() { return; }
\* process_local_jobs pops a job from the internal queue and runs it.
ProcessLocalJobs(w) ==
    /\ pc[w] \in {"n_local", "x_local"}
    /\ IF has_local_jobs(w)
       THEN \E j \in internal[w] :
              /\ internal' = pop(w, j)
              /\ process_job(w, j, "internal")
       ELSE /\ Fail(w)
            /\ UNCHANGED <<internal, running>>
    /\ UNCHANGED <<alive, global, external, mode, hand, scheduled, marks, exec, files, comp>>

\* normal_iteration: if self.steal_from_other_queue() { return; }
\* The stealer takes one job out of a victim's internal queue.
StealFromOtherQueue(w) ==
    /\ pc[w] = "n_steal"
    /\ IF Victims(w) # {}
       THEN \E v \in Victims(w) : \E j \in internal[v] :
              /\ internal' = pop(v, j)
              /\ hand' = [hand EXCEPT ![w] = j]
              /\ pc' = [pc EXCEPT ![w] = "n_put"]
              /\ UNCHANGED tried
       ELSE /\ Fail(w)
            /\ UNCHANGED <<internal, hand>>
    /\ UNCHANGED <<alive, global, external, mode, scheduled, running, marks, exec, files, comp>>

\* The second half of a steal, from a worker or from the global queue: the
\* job is pushed on the stealer's own internal queue, and the iteration returns.
PutStolen(w) ==
    /\ pc[w] \in {"n_put", "g_put"}
    /\ internal' = push_internal(w, hand[w])
    /\ hand' = [hand EXCEPT ![w] = None]
    /\ pc' = [pc EXCEPT ![w] = NormalAfter(IF pc[w] = "n_put" THEN "n_steal" ELSE "n_global", TRUE)]
    /\ tried' = [tried EXCEPT ![w] = <<>>]
    /\ UNCHANGED <<alive, global, external, mode, scheduled, running, marks, exec, files, comp>>

\* normal_iteration: if self.queue.move_external_jobs() { return; }
MoveExternalJobs(w) ==
    /\ pc[w] = "n_move"
    /\ IF has_external_jobs(w)
       THEN /\ move_external_jobs(w)
            /\ pc' = [pc EXCEPT ![w] = NormalAfter("n_move", TRUE)]
            /\ tried' = [tried EXCEPT ![w] = <<>>]
       ELSE /\ Fail(w)
            /\ UNCHANGED <<internal, external>>
    /\ UNCHANGED <<alive, global, mode, hand, scheduled, running, marks, exec, files, comp>>

\* normal_iteration: if self.steal_from_global_queue() { return; }
StealFromGlobalQueue(w) ==
    /\ pc[w] = "n_global"
    /\ IF has_global_jobs
       THEN \E j \in global :
              /\ global' = pop_global(j)
              /\ hand' = [hand EXCEPT ![w] = j]
              /\ pc' = [pc EXCEPT ![w] = "g_put"]
              /\ UNCHANGED tried
       ELSE /\ Fail(w)
            /\ UNCHANGED <<global, hand>>
    /\ UNCHANGED <<alive, internal, external, mode, scheduled, running, marks, exec, files, comp>>

\* PopExternalJob with the job read from the inbox but left in it.
PopExternalJobKeep(w) ==
    /\ pc[w] = "x_ext"
    /\ IF has_external_jobs(w)
       THEN \E j \in external[w] :
              /\ UNCHANGED external
              /\ process_job(w, j, "external")
       ELSE /\ Fail(w)
            /\ UNCHANGED <<external, running>>
    /\ UNCHANGED <<alive, global, internal, mode, hand, scheduled, marks, exec, files, comp>>

\* exclusive_iteration:
\* if let Some(job) = self.queue.pop_external_job() { self.process_job(job); return; }
PopExternalJob(w) ==
    /\ pc[w] = "x_ext"
    /\ IF has_external_jobs(w)
       THEN \E j \in external[w] :
              /\ external' = pop_external_job(w, j)
              /\ process_job(w, j, "external")
       ELSE /\ Fail(w)
            /\ UNCHANGED <<external, running>>
    /\ UNCHANGED <<alive, global, internal, mode, hand, scheduled, marks, exec, files, comp>>

\* self.state.park_while(...): the condition is evaluated and the thread is put
\* to sleep in one atomic step.
Park(w) ==
    /\ pc[w] \in {"n_park", "x_park"}
    /\ pc' = [pc EXCEPT ![w] = IF ShouldPark(w) THEN "parked" ELSE "run"]
    /\ tried' = [tried EXCEPT ![w] = <<>>]
    /\ UNCHANGED <<alive, queues, mode, hand, scheduled, running, marks, exec, files, comp>>

\* A sleeping worker is woken, finds that it no longer has to park, and
\* park_while returns.
Unpark(w) ==
    /\ pc[w] = "parked"
    /\ ~ShouldPark(w)
    /\ pc' = [pc EXCEPT ![w] = "run"]
    /\ UNCHANGED <<alive, queues, mode, hand, scheduled, running, tried, marks, exec, files, comp>>

\* ------------------------------------------------------------------------
\* process_job: machine.run(self, &job).  The process executes on the worker's
\* thread; its instructions can switch the worker's mode.

\* EnterMoveExternal without the call of move_external_jobs.
EnterMoveExternalSkip(w) ==
    /\ pc[w] = "job"
    /\ mode[w] = "Normal"
    /\ pc' = [pc EXCEPT ![w] = "e_pop"]
    /\ before' = [before EXCEPT ![w] = internal[w] \cup external[w]]
    /\ pinned' = [pinned EXCEPT ![w] = external[w]]
    /\ UNCHANGED <<alive, queues, mode, hand, scheduled, running, tried, atShutdown, exec, files, comp>>

\* enter_exclusive_mode, first statement: self.queue.move_external_jobs();
\* The call is the worker's transition out of normal mode.
EnterMoveExternal(w) ==
    /\ pc[w] = "job"
    /\ mode[w] = "Normal"
    /\ move_external_jobs(w)
    /\ pc' = [pc EXCEPT ![w] = "e_pop"]
    /\ before' = [before EXCEPT ![w] = internal[w] \cup external[w]]
    /\ pinned' = [pinned EXCEPT ![w] = external[w]]
    /\ UNCHANGED <<alive, global, mode, hand, scheduled, running, tried, atShutdown, exec, files, comp>>

\* EnterPop switching the mode without emptying the queue.
EnterPopNoDrain(w) ==
    /\ pc[w] = "e_pop"
    /\ mode' = [mode EXCEPT ![w] = "Exclusive"]
    /\ pc' = [pc EXCEPT ![w] = "job"]
    /\ before' = [before EXCEPT ![w] = {}]
    /\ pinned' = [pinned EXCEPT ![w] = {}]
    /\ UNCHANGED <<alive, queues, hand, scheduled, running, tried, atShutdown, exec, files, comp>>

\* EnterPop switching the mode as soon as it has popped a first job.
EnterPopModeEarly(w) ==
    /\ pc[w] = "e_pop"
    /\ IF has_local_jobs(w)
       THEN \E j \in internal[w] :
              /\ internal' = pop(w, j)
              /\ hand' = [hand EXCEPT ![w] = j]
              /\ pc' = [pc EXCEPT ![w] = "e_push"]
              /\ mode' = [mode EXCEPT ![w] = "Exclusive"]
              /\ UNCHANGED <<before, pinned>>
       ELSE /\ mode' = [mode EXCEPT ![w] = "Exclusive"]
            /\ pc' = [pc EXCEPT ![w] = "job"]
            /\ before' = [before EXCEPT ![w] = {}]
            /\ pinned' = [pinned EXCEPT ![w] = {}]
            /\ UNCHANGED <<internal, hand>>
    /\ UNCHANGED <<alive, global, external, scheduled, running, tried, atShutdown, exec, files, comp>>

\* enter_exclusive_mode: while let Some(job) = self.queue.pop() { ... }
\* and, once the queue is empty, self.mode = Mode::Exclusive.
EnterPop(w) ==
    /\ pc[w] = "e_pop"
    /\ IF has_local_jobs(w)
       THEN \E j \in internal[w] :
              /\ internal' = pop(w, j)
              /\ hand' = [hand EXCEPT ![w] = j]
              /\ pc' = [pc EXCEPT ![w] = "e_push"]
              /\ UNCHANGED <<mode, before, pinned>>
       ELSE /\ mode' = [mode EXCEPT ![w] = "Exclusive"]
            /\ pc' = [pc EXCEPT ![w] = "job"]
            /\ before' = [before EXCEPT ![w] = {}]
            /\ pinned' = [pinned EXCEPT ![w] = {}]
            /\ UNCHANGED <<internal, hand>>
    /\ UNCHANGED <<alive, global, external, scheduled, running, tried, atShutdown, exec, files, comp>>

\* EnterPushGlobal with the popped job forgotten instead of pushed.
EnterPushGlobalDrop(w) ==
    /\ pc[w] = "e_push"
    /\ hand' = [hand EXCEPT ![w] = None]
    /\ pc' = [pc EXCEPT ![w] = "e_pop"]
    /\ UNCHANGED <<alive, queues, mode, scheduled, running, tried, marks, exec, files, comp>>

\* EnterPushGlobal draining the inbox again for every job it pushes.
EnterPushGlobalAndDrain(w) ==
    /\ pc[w] = "e_push"
    /\ global' = push_global(hand[w])
    /\ hand' = [hand EXCEPT ![w] = None]
    /\ move_external_jobs(w)
    /\ pc' = [pc EXCEPT ![w] = "e_pop"]
    /\ UNCHANGED <<alive, mode, scheduled, running, tried, marks, exec, files, comp>>

\* enter_exclusive_mode: self.state.push_global(job);
EnterPushGlobal(w) ==
    /\ pc[w] = "e_push"
    /\ global' = push_global(hand[w])
    /\ hand' = [hand EXCEPT ![w] = None]
    /\ pc' = [pc EXCEPT ![w] = "e_pop"]
    /\ UNCHANGED <<alive, internal, external, mode, scheduled, running, tried, marks, exec, files, comp>>

\* LeaveExclusiveMode draining the inbox on its way out.
LeaveExclusiveModeDrain(w) ==
    /\ pc[w] = "job"
    /\ mode[w] = "Exclusive"
    /\ mode' = [mode EXCEPT ![w] = "Normal"]
    /\ move_external_jobs(w)
    /\ UNCHANGED <<alive, global, pc, hand, scheduled, running, tried, marks, exec, files, comp>>

\* leave_exclusive_mode: self.mode = Mode::Normal;
LeaveExclusiveMode(w) ==
    /\ pc[w] = "job"
    /\ mode[w] = "Exclusive"
    /\ mode' = [mode EXCEPT ![w] = "Normal"]
    /\ UNCHANGED <<alive, queues, pc, hand, scheduled, running, tried, marks, exec, files, comp>>

\* machine.run returns: the slice of the process is over.
FinishJob(w) ==
    /\ pc[w] = "job"
    /\ cur' = [cur EXCEPT ![w] = None]
    /\ curSrc' = [curSrc EXCEPT ![w] = "none"]
    /\ curMode' = [curMode EXCEPT ![w] = "none"]
    /\ pc' = [pc EXCEPT ![w] = "run"]
    /\ UNCHANGED <<alive, queues, mode, hand, scheduled, runs, tried, marks, exec, files, comp>>

\* ------------------------------------------------------------------------
\* The other threads of the program.

\* PoolState::push_global: a process is scheduled on the global queue.
PushGlobal ==
    /\ scheduled < MaxJobs
    /\ scheduled' = scheduled + 1
    /\ global' = push_global(scheduled + 1)
    /\ UNCHANGED <<alive, internal, external, mode, pc, hand, running, tried, marks, exec, files, comp>>

\* Queue::push_external: a process is pinned to worker w.
PushExternal(w) ==
    /\ scheduled < MaxJobs
    /\ scheduled' = scheduled + 1
    /\ external' = push_external(w, scheduled + 1)
    /\ UNCHANGED <<alive, global, internal, mode, pc, hand, running, tried, marks, exec, files, comp>>

\* PoolState::terminate: the liveness flag flips to false.
Terminate ==
    /\ alive
    /\ alive' = FALSE
    /\ atShutdown' = scheduled
    /\ UNCHANGED <<queues, mode, pc, hand, scheduled, running, tried, before, pinned, exec, files, comp>>

\* ------------------------------------------------------------------------

\* ProcessWorker::new for every worker of a fresh pool.
PoolInit ==
    /\ alive = TRUE
    /\ global = {}
    /\ internal = [w \in Workers |-> {}]
    /\ external = [w \in Workers |-> {}]
    /\ mode = [w \in Workers |-> "Normal"]
    /\ pc = [w \in Workers |-> "run"]
    /\ cur = [w \in Workers |-> None]
    /\ hand = [w \in Workers |-> None]
    /\ scheduled = 0
    /\ runs = [j \in Jobs |-> 0]
    /\ curSrc = [w \in Workers |-> "none"]
    /\ curMode = [w \in Workers |-> "none"]
    /\ tried = [w \in Workers |-> <<>>]
    /\ before = [w \in Workers |-> {}]
    /\ pinned = [w \in Workers |-> {}]
    /\ atShutdown = MaxJobs

\* A fresh registry: no entry, the lock free, no process has executed an
\* instruction; each process has the paths in its registers 1 and 2.
RegistryInit ==
    /\ file_registry = [p \in Paths |-> NoCode]
    /\ inserting = {}
    /\ rwlock = [writer |-> NoProc, readers |-> {}]
    /\ ip = [p \in Procs |-> "idle"]
    /\ operands = [p \in Procs |-> [op |-> "ParseFile", dest |-> 0, path |-> 0]]
    /\ registers = [p \in Procs |-> [r \in Registers |->
                        IF r = 0 THEN Nothing ELSE String(r)]]
    /\ temp = [p \in Procs |-> NoTemp]
    /\ outcome = [p \in Procs |-> "none"]
    /\ parses = [p \in Paths |-> 0]
    /\ loaded = [p \in Paths |-> 0]
    /\ returned = [p \in Paths |-> {}]
    /\ executed = [p \in Procs |-> 0]
    /\ depth = [p \in Procs |-> 1]
    /\ bindings = <<>>

\* A fresh pool; the process whose instructions are followed has executed none.
Init ==
    /\ PoolInit
    /\ RegistryInit
    /\ BuilderNew
    /\ disk = [p \in Paths |-> TRUE]
    /\ block = [total |-> 0, required |-> 0, rest |-> FALSE, locals |-> 0, binding |-> 1]
    /\ stack = <<[binding |-> 1, ret |-> NoRegister, regs |-> [r \in Registers |-> Unset]]>>
    /\ heap = <<[locals |-> <<>>, parent |-> NoBinding]>>
    /\ line = 1
    /\ instr = [line |-> 1, dest |-> 0, block |-> 0, args |-> <<>>]
    /\ result = "none"

\* One step of worker w's thread.
WorkerStep(w) ==
    \/ RunLoop(w)
    \/ ProcessLocalJobs(w)
    \/ StealFromOtherQueue(w)
    \/ PutStolen(w)
    \/ MoveExternalJobs(w)
    \/ StealFromGlobalQueue(w)
    \/ PopExternalJob(w)
    \/ Park(w)
    \/ Unpark(w)
    \/ EnterMoveExternal(w)
    \/ EnterPop(w)
    \/ EnterPushGlobal(w)
    \/ LeaveExclusiveMode(w)
    \/ FinishJob(w)

Next ==
    \/ \E w \in Workers : WorkerStep(w)
    \/ PushGlobal
    \/ \E w \in Workers : PushExternal(w)
    \/ Terminate

Spec == Init /\ [][Next]_vars

\* Every worker thread keeps being scheduled by the operating system.
FairSpec == Spec /\ \A w \in Workers : WF_vars(WorkerStep(w))

\* ------------------------------------------------------------------------
\* vm::instructions::code_execution

\* TooManyArguments letting one argument too many through.
TooManyArgumentsOffByOne(i) == arg_count(i) > arguments + 1

\* run_block: if arg_count > tot_args { return Err(...) }
TooManyArguments(i) == arg_count(i) > arguments

\* TooFewArguments letting one argument too few through.
TooFewArgumentsOffByOne(i) == arg_count(i) + 1 < required_arguments

\* run_block: if arg_count < req_args { return Err(...) }
TooFewArguments(i) == arg_count(i) < required_arguments

\* PushedLocals with the arguments pushed last to first.
PushedLocalsReversed(i) ==
    [k \in 1 .. arg_count(i) |-> get_register(i.args[arg_count(i) + 1 - k])]

\* run_block: the values pushed on the locals, for index in
\* arg_offset..(arg_offset + arg_count), in that order.
PushedLocals(i) == [k \in 1 .. arg_count(i) |-> get_register(i.args[k])]

\* run_block: one of the argument registers is unset, and get_register fails
\* inside the loop.
ArgumentUnset(i) == \E k \in 1 .. arg_count(i) : get_register(i.args[k]) = Unset

\* ContextBinding with the context using the block's own binding.
ContextBindingShared(b) == b

\* ExecutionContext::with_binding: the identity of the context's binding, a
\* Binding created for the invocation.
ContextBinding(b) == Len(heap) + 1

\* WithBinding giving the new binding one empty slot for every local of the code.
WithBindingSized(b) ==
    IF ContextBinding(b) > Len(heap)
    THEN Append(heap, [locals |-> [k \in 1 .. code_locals |-> Unset], parent |-> b])
    ELSE heap

\* ExecutionContext::with_binding: the Bindings alive once the context exists;
\* the new one is empty and has the block's binding as its parent.
WithBinding(b) ==
    IF ContextBinding(b) > Len(heap)
    THEN Append(heap, [locals |-> <<>>, parent |-> b])
    ELSE heap

\* ExecutionContext::with_binding(binding, code, Some(register)): the context,
\* with a register file of its own.
with_binding(b, register) ==
    [binding |-> ContextBinding(b), ret |-> register,
     regs |-> [r \in Registers |-> Unset]]

\* Fails with the context created and pushed before the arguments are counted.
FailsAfterPush(error) ==
    /\ result' = error
    /\ stack' = Append(stack, [binding |-> Len(heap), ret |-> NoRegister,
                                regs |-> [r \in Registers |-> Unset]])
    /\ UNCHANGED heap

\* run_block: return Err(...): the instruction fails and nothing was touched
\* but the line the process is at.
Fails(error) ==
    /\ result' = error
    /\ UNCHANGED <<stack, heap>>

\* The first argument of instruction i whose register is unset.
FirstUnset(i) ==
    CHOOSE k \in 1 .. arg_count(i) :
        /\ get_register(i.args[k]) = Unset
        /\ \A m \in 1 .. (k - 1) : get_register(i.args[m]) # Unset

\* run_block: the values pushed on the locals before get_register fails.
PushedBeforeFailure(i) == [k \in 1 .. (FirstUnset(i) - 1) |-> get_register(i.args[k])]

\* FailsInArguments with the new binding staying behind, half filled.
FailsInArgumentsLeavesBinding(i) ==
    /\ result' = "UndefinedRegister"
    /\ heap' = Append(heap, [locals |-> PushedBeforeFailure(i), parent |-> block.binding])
    /\ UNCHANGED stack

\* run_block: process.get_register(register)? fails inside the loop that
\* pushes the arguments.  The context exists by then and the arguments before
\* the failing one are on the locals of its binding; the context was not
\* pushed and is dropped, and its binding with it if it was made for it.
FailsInArguments(i) ==
    /\ result' = "UndefinedRegister"
    /\ heap' = IF ContextBinding(block.binding) > Len(heap)
               THEN heap
               ELSE [heap EXCEPT ![ContextBinding(block.binding)].locals =
                                    @ \o PushedBeforeFailure(i)]
    /\ UNCHANGED stack

\* push_context replacing the current context by the new one.
push_context_over(c) == stack' = [stack EXCEPT ![Len(stack)] = c]

\* Process::push_context
push_context(c) == stack' = Append(stack, c)

\* EntersContext with the destination register of the caller written at once.
EntersContextWritesDest(i) ==
    /\ heap' = [WithBinding(block.binding) EXCEPT
                  ![ContextBinding(block.binding)].locals = @ \o PushedLocals(i)]
    /\ stack' = Append([stack EXCEPT ![Len(stack)].regs[i.dest] = Object(2)],
                       with_binding(block.binding, i.dest))
    /\ result' = "EnterContext"

\* run_block, from ExecutionContext::with_binding on: the context is created,
\* the arguments are pushed on its binding's locals, the context is pushed.
EntersContext(i) ==
    /\ heap' = [WithBinding(block.binding) EXCEPT
                  ![ContextBinding(block.binding)].locals = @ \o PushedLocals(i)]
    /\ push_context(with_binding(block.binding, i.dest))
    /\ result' = "EnterContext"

\* run_block, the whole handler, for instruction i.
run_block(i) ==
    /\ line' = i.line
    /\ instr' = i
    /\ IF get_register(i.block) = Unset THEN Fails("UndefinedRegister")
       ELSE IF get_register(i.block) # BlockPointer THEN Fails("NotABlock")
       ELSE IF TooManyArguments(i) THEN Fails("TooManyArguments")
       ELSE IF TooFewArguments(i) THEN Fails("TooFewArguments")
       ELSE IF ArgumentUnset(i) THEN FailsInArguments(i)
       ELSE EntersContext(i)
    /\ UNCHANGED block

\* The process executes a RunBlock instruction.
RunBlock ==
    /\ \E i \in Instructions : run_block(i)
    /\ UNCHANGED <<sched, files, comp>>

\* run_block_with_rest: Ok(Action::EnterContext), and nothing else.
RunBlockWithRest ==
    /\ result' = "EnterContext"
    /\ UNCHANGED <<block, stack, heap, line, instr>>
    /\ UNCHANGED <<sched, files, comp>>

\* The invoked block returns object v: its context is popped, its binding is
\* discarded and v is written to the register the caller named.
Return ==
    /\ Len(stack) > 1
    /\ \E v \in {Object(1)} :
         stack' = [SubSeq(stack, 1, Len(stack) - 1) EXCEPT
                     ![Len(stack) - 1].regs[context.ret] = v]
    /\ heap' = IF context.binding = Len(heap) /\ Len(heap) > 1
               THEN SubSeq(heap, 1, Len(heap) - 1)
               ELSE heap
    /\ result' = "Return"
    /\ UNCHANGED <<block, line, instr>>
    /\ UNCHANGED <<sched, files, comp>>

\* The blocks a process can hold: declared and required argument counts, the
\* rest flag, the number of locals of the code, of which the arguments are the
\* first, and the binding of the scope that created the block.
Blocks ==
    {b \in [total : 0 .. MaxArguments, required : 0 .. MaxArguments,
            rest : BOOLEAN, locals : 0 .. MaxArguments + 1, binding : {1}] :
        /\ b.required <= b.total
        /\ b.locals \in {b.total, b.total + 1}}

\* A process about to execute its first instruction: its one context holds
\* the block in register 0, an object in register 1 and another object or
\* nothing in register 2; the binding the block captured has a local.
ExecInit ==
    /\ PoolInit
    /\ RegistryInit
    /\ BuilderNew
    /\ disk = [p \in Paths |-> TRUE]
    /\ block \in Blocks
    /\ \E v \in {Object(2), Unset} :
         stack = <<[binding |-> 1, ret |-> NoRegister,
                    regs |-> [r \in Registers |->
                                CASE r = 0 -> BlockPointer
                                  [] r = 1 -> Object(1)
                                  [] OTHER -> v]]>>
    /\ heap = <<[locals |-> <<Object(2)>>, parent |-> NoBinding]>>
    /\ line = 1
    /\ instr = [line |-> 1, dest |-> 0, block |-> 0, args |-> <<>>]
    /\ result = "none"

ExecNext ==
    \/ RunBlock
    \/ RunBlockWithRest
    \/ Return

\* The execution of one process's block invocations.
ExecSpec == ExecInit /\ [][ExecNext]_vars

\* ------------------------------------------------------------------------
\* vm::instructions::code_execution: parse_file and file_parsed, and the
\* BytecodeFileRegistry behind its reader/writer lock.  Every action is one
\* step of the process p that executes the instruction.

\* Process p is inside the registry: it holds the lock, as writer or reader.
Inside(p) == ip[p] \in {"pf_get", "pf_insert", "pf_unlock", "fp_contains", "fp_unlock"}

\* The instructions process p can execute next.
Fetch(p) == {i \in FileInstructions : ip[p] = "idle" /\ executed[p] < MaxInstructions}

\* let path_ptr = process.get_register(instruction.arg(1)?)?;
\* let path_str = path_ptr.string_value()?;
\* The error of the two statements for instruction i of process p, or "none".
PathError(p, i) ==
    IF registers[p][i.path] = Nothing THEN "UndefinedRegister"
    ELSE IF registers[p][i.path].kind # "string" THEN "NotAString"
    ELSE "none"

\* The handler of instruction i reads its operands and, if it can, goes on to
\* position `next`.
ReadOperands(p, i, next) ==
    /\ operands' = [operands EXCEPT ![p] = i]
    /\ executed' = [executed EXCEPT ![p] = @ + 1]
    /\ IF PathError(p, i) = "none"
       THEN /\ temp' = [temp EXCEPT ![p] = [NoTemp EXCEPT !.path = registers[p][i.path].id]]
            /\ ip' = [ip EXCEPT ![p] = next]
            /\ outcome' = [outcome EXCEPT ![p] = "running"]
       ELSE /\ temp' = [temp EXCEPT ![p] = NoTemp]
            /\ outcome' = [outcome EXCEPT ![p] = PathError(p, i)]
            /\ UNCHANGED ip

\* parse_file, up to the path string.
ParseFileOperands(p) ==
    /\ \E i \in Fetch(p) :
         /\ i.op = "ParseFile"
         /\ ReadOperands(p, i, "pf_lock")
    /\ UNCHANGED <<file_registry, inserting, rwlock, disk, registers, parses,
                   loaded, returned, depth, bindings>>
    /\ UNCHANGED <<sched, exec, comp>>

\* CanWrite not waiting for the readers to leave.
CanWriteAmongReaders(p) == rwlock.writer = NoProc

\* CanRead not waiting for the writer to leave.
CanReadAlways(p) == TRUE

\* The write section is free for p: no writer and no reader.
CanWrite(p) == rwlock.writer = NoProc /\ rwlock.readers = {}

\* The read section is free for p: no writer.
CanRead(p) == rwlock.writer = NoProc

\* parse_file: write_lock!(machine.file_registry)
ParseFileWriteLock(p) ==
    /\ ip[p] = "pf_lock"
    /\ CanWrite(p)
    /\ rwlock' = [rwlock EXCEPT !.writer = p]
    /\ ip' = [ip EXCEPT ![p] = "pf_get"]
    /\ UNCHANGED <<file_registry, inserting, disk, operands, registers, temp,
                   outcome, parses, loaded, returned, executed, depth, bindings>>
    /\ UNCHANGED <<sched, exec, comp>>

\* BytecodeFileRegistry::contains_path
contains_path(path) == file_registry[path] # NoCode

\* MustParse parsing the file whether there is an entry or not.
MustParseAlways(path) == TRUE

\* BytecodeFileRegistry::get_or_set finds no entry: it has to parse the file.
MustParse(path) == ~contains_path(path)

\* ParseFails leaving a half-written entry for the path behind.
ParseFailsPoisons(p) ==
    /\ temp' = [temp EXCEPT ![p].err = TRUE]
    /\ ip' = [ip EXCEPT ![p] = "pf_unlock"]
    /\ inserting' = inserting \cup {temp[p].path}

\* BytecodeFileRegistry::get_or_set: the parse routine failed; the error is
\* returned and the registry is left as it was.
ParseFails(p) ==
    /\ temp' = [temp EXCEPT ![p].err = TRUE]
    /\ ip' = [ip EXCEPT ![p] = "pf_unlock"]
    /\ UNCHANGED inserting

\* BytecodeFileRegistry::get_or_set, first part: the cached CompiledCode is
\* returned if there is one; otherwise the file is parsed, and the insertion
\* of the result begins, or the parse error is returned.
ParseFileGetOrSet(p) ==
    /\ ip[p] = "pf_get"
    /\ LET path == temp[p].path IN
         IF ~MustParse(path)
         THEN /\ temp' = [temp EXCEPT ![p].code = file_registry[path]]
              /\ ip' = [ip EXCEPT ![p] = "pf_unlock"]
              /\ UNCHANGED <<inserting, parses>>
         ELSE /\ parses' = [parses EXCEPT ![path] = @ + 1]
              /\ IF disk[path]
                 THEN /\ inserting' = inserting \cup {path}
                      /\ ip' = [ip EXCEPT ![p] = "pf_insert"]
                      /\ UNCHANGED temp
                 ELSE ParseFails(p)
    /\ UNCHANGED <<file_registry, rwlock, disk, operands, registers, outcome,
                   loaded, returned, executed, depth, bindings>>
    /\ UNCHANGED <<sched, exec, comp>>

\* The CompiledCode a parse makes: a new object.
NewCode == loaded[1] + loaded[2] + 1

\* BytecodeFileRegistry::get_or_set, second part: the parsed CompiledCode is
\* in the registry and is returned.
ParseFileInsert(p) ==
    /\ ip[p] = "pf_insert"
    /\ file_registry' = [file_registry EXCEPT ![temp[p].path] = NewCode]
    /\ inserting' = inserting \ {temp[p].path}
    /\ loaded' = [loaded EXCEPT ![temp[p].path] = @ + 1]
    /\ temp' = [temp EXCEPT ![p].code = NewCode]
    /\ ip' = [ip EXCEPT ![p] = "pf_unlock"]
    /\ UNCHANGED <<rwlock, disk, operands, registers, outcome, parses,
                   returned, executed, depth, bindings>>
    /\ UNCHANGED <<sched, exec, comp>>

\* parse_file: the write guard is dropped at the end of the statement;
\* .map_err(|err| err.message())? returns the error if there is one.
ParseFileUnlock(p) ==
    /\ ip[p] = "pf_unlock"
    /\ rwlock' = [rwlock EXCEPT !.writer = NoProc]
    /\ IF temp[p].err
       THEN /\ outcome' = [outcome EXCEPT ![p] = "LoadError"]
            /\ ip' = [ip EXCEPT ![p] = "idle"]
            /\ UNCHANGED returned
       ELSE /\ returned' = [returned EXCEPT ![temp[p].path] = @ \cup {temp[p].code}]
            /\ ip' = [ip EXCEPT ![p] = "pf_set"]
            /\ UNCHANGED outcome
    /\ UNCHANGED <<file_registry, inserting, disk, operands, registers, temp,
                   parses, loaded, executed, depth, bindings>>
    /\ UNCHANGED <<sched, exec, comp>>

\* parse_file: let block = Block::new(code.clone(), Binding::new());
\* let block_ptr = process.allocate(...); process.set_register(register, block_ptr);
\* Ok(Action::None)
ParseFileSetRegister(p) ==
    /\ ip[p] = "pf_set"
    /\ bindings' = Append(bindings, <<>>)
    /\ registers' = [registers EXCEPT ![p][operands[p].dest] =
                        BlockObject(temp[p].code, Len(bindings) + 1)]
    /\ outcome' = [outcome EXCEPT ![p] = "None"]
    /\ ip' = [ip EXCEPT ![p] = "idle"]
    /\ UNCHANGED <<file_registry, inserting, rwlock, disk, operands, temp,
                   parses, loaded, returned, executed, depth>>
    /\ UNCHANGED <<sched, exec, comp>>

\* file_parsed, up to the path string.
FileParsedOperands(p) ==
    /\ \E i \in Fetch(p) :
         /\ i.op = "FileParsed"
         /\ ReadOperands(p, i, "fp_lock")
    /\ UNCHANGED <<file_registry, inserting, rwlock, disk, registers, parses,
                   loaded, returned, depth, bindings>>
    /\ UNCHANGED <<sched, exec, comp>>

\* file_parsed: read_lock!(machine.file_registry)
FileParsedReadLock(p) ==
    /\ ip[p] = "fp_lock"
    /\ CanRead(p)
    /\ rwlock' = [rwlock EXCEPT !.readers = @ \cup {p}]
    /\ ip' = [ip EXCEPT ![p] = "fp_contains"]
    /\ UNCHANGED <<file_registry, inserting, disk, operands, registers, temp,
                   outcome, parses, loaded, returned, executed, depth, bindings>>
    /\ UNCHANGED <<sched, exec, comp>>

\* Membership answering the opposite.
MembershipNegated(path) == {~contains_path(path)}

\* What contains_path can answer: the membership of the path, and anything
\* if it reads an entry while that entry is being written.
Membership(path) ==
    IF path \in inserting THEN BOOLEAN ELSE {contains_path(path)}

\* file_parsed: .contains_path(path_str)
FileParsedContainsPath(p) ==
    /\ ip[p] = "fp_contains"
    /\ \E found \in Membership(temp[p].path) :
         temp' = [temp EXCEPT ![p].found = found]
    /\ ip' = [ip EXCEPT ![p] = "fp_unlock"]
    /\ UNCHANGED <<file_registry, inserting, rwlock, disk, operands, registers,
                   outcome, parses, loaded, returned, executed, depth, bindings>>
    /\ UNCHANGED <<sched, exec, comp>>

\* file_parsed: the read guard is dropped at the end of the condition.
FileParsedUnlock(p) ==
    /\ ip[p] = "fp_unlock"
    /\ rwlock' = [rwlock EXCEPT !.readers = @ \ {p}]
    /\ ip' = [ip EXCEPT ![p] = "fp_set"]
    /\ UNCHANGED <<file_registry, inserting, disk, operands, registers, temp,
                   outcome, parses, loaded, returned, executed, depth, bindings>>
    /\ UNCHANGED <<sched, exec, comp>>

\* file_parsed: process.set_register(register, ptr); Ok(Action::None)
FileParsedSetRegister(p) ==
    /\ ip[p] = "fp_set"
    /\ registers' = [registers EXCEPT ![p][operands[p].dest] = Boolean(temp[p].found)]
    /\ outcome' = [outcome EXCEPT ![p] = "None"]
    /\ ip' = [ip EXCEPT ![p] = "idle"]
    /\ UNCHANGED <<file_registry, inserting, rwlock, disk, operands, temp,
                   parses, loaded, returned, executed, depth, bindings>>
    /\ UNCHANGED <<sched, exec, comp>>

\* Outside the virtual machine: a well-formed bytecode file appears at a path
\* where there was none.
WriteFile ==
    /\ \E path \in Paths :
         /\ ~disk[path]
         /\ disk' = [disk EXCEPT ![path] = TRUE]
    /\ UNCHANGED <<file_registry, inserting, rwlock, ip, operands, registers, temp,
                   outcome, parses, loaded, returned, executed, depth, bindings>>
    /\ UNCHANGED <<sched, exec, comp>>

\* One step of process p.
ProcStep(p) ==
    \/ ParseFileOperands(p)
    \/ ParseFileWriteLock(p)
    \/ ParseFileGetOrSet(p)
    \/ ParseFileInsert(p)
    \/ ParseFileUnlock(p)
    \/ ParseFileSetRegister(p)
    \/ FileParsedOperands(p)
    \/ FileParsedReadLock(p)
    \/ FileParsedContainsPath(p)
    \/ FileParsedUnlock(p)
    \/ FileParsedSetRegister(p)

\* A fresh virtual machine; each bytecode file is there or is not.
FileInit ==
    /\ PoolInit
    /\ RegistryInit
    /\ BuilderNew
    /\ disk \in [Paths -> BOOLEAN]
    /\ block = [total |-> 0, required |-> 0, rest |-> FALSE, locals |-> 0, binding |-> 1]
    /\ stack = <<[binding |-> 1, ret |-> NoRegister, regs |-> [r \in Registers |-> Unset]]>>
    /\ heap = <<[locals |-> <<>>, parent |-> NoBinding]>>
    /\ line = 1
    /\ instr = [line |-> 1, dest |-> 0, block |-> 0, args |-> <<>>]
    /\ result = "none"

FileNext ==
    \/ \E p \in Procs : ProcStep(p)
    \/ WriteFile

\* Processes on different workers executing ParseFile and FileParsed.
FileSpec == FileInit /\ [][FileNext]_vars

\* ------------------------------------------------------------------------
\* Where a job is.

\* The number of places (queues, hands, executing workers) that hold job j.
Places(j) ==
    (IF j \in global THEN 1 ELSE 0)
    + Cardinality({w \in Workers : j \in internal[w]})
    + Cardinality({w \in Workers : j \in external[w]})
    + Cardinality({w \in Workers : hand[w] = j})
    + Cardinality({w \in Workers : cur[w] = j})

\* Job j sits in some queue of the pool.
Queued(j) ==
    \/ j \in global
    \/ \E w \in Workers : j \in internal[w] \/ j \in external[w]

\* ------------------------------------------------------------------------
\* A process that is executed is executed by one worker and is nowhere else.
C1_OneOwner ==
    \A w \in Workers : cur[w] # None =>
        /\ \A v \in Workers \ {w} : cur[v] # cur[w]
        /\ ~Queued(cur[w])
        /\ \A v \in Workers : hand[v] # cur[w]

\* A worker starts executing a process by dequeuing it from its own queue.
C1_TakenByDequeue ==
    \A w \in Workers : (cur'[w] # cur[w] /\ cur'[w] # None) =>
        /\ cur'[w] \in internal[w] \cup external[w]
        /\ \A v \in Workers : cur[v] # cur'[w]

\* C1: a process is executed (inside process_job) by at most one worker at a
\* time; while it is executed it is in no internal queue, no external inbox,
\* not in the global queue and in no worker's hands; and a worker starts
\* executing a process only by dequeuing it from its own queue, never by
\* taking over a process that a worker is executing.
C1_ExclusiveOwnership == [](C1_OneOwner) /\ [][C1_TakenByDequeue]_vars

\* Both workers are executing a process at the same time, one of them a
\* process pinned to it and the other in exclusive mode.
C1_Witness ==
    /\ cur[0] # None /\ cur[1] # None
    /\ pc[0] = "job" /\ pc[1] = "job"
    /\ \E w \in Workers : curSrc[w] = "external"
    /\ \E w \in Workers : curSrc[w] = "internal"

\* ------------------------------------------------------------------------
\* C2 (amended): no combination of pop, steal, external drain, global steal
\* and enter_exclusive_mode duplicates or drops a job: a job that has been
\* scheduled and not yet passed to process_job is in exactly one place (one
\* queue, or one worker's hands while it is moved), a job is passed to
\* process_job at most once, by one worker, and afterwards it is in no queue.
C2_WorkConservation ==
    \A j \in Jobs :
        IF j > scheduled
        THEN Places(j) = 0 /\ runs[j] = 0
        ELSE /\ runs[j] <= 1
             /\ runs[j] = 0 => (Places(j) = 1 /\ \A w \in Workers : cur[w] # j)
             /\ runs[j] = 1 => Places(j) = Cardinality({w \in Workers : cur[w] = j})

\* Every run loop has returned.
AllStopped == \A w \in Workers : pc[w] = "stopped"

\* C2 as stated: every job enqueued before shutdown is eventually passed to
\* process_job, exactly once; so once every run loop has returned, every such
\* job has been passed to process_job.
C2_AsStated ==
    /\ C2_WorkConservation
    /\ AllStopped => \A j \in Jobs : j <= atShutdown => runs[j] = 1

\* Every job has gone through process_job once, with a worker in exclusive
\* mode (so that pops, steals, drains and enter_exclusive_mode have happened).
C2_Witness ==
    /\ scheduled = MaxJobs
    /\ \A j \in Jobs : runs[j] = 1
    /\ \E w \in Workers : mode[w] = "Exclusive"

\* ------------------------------------------------------------------------
\* No job is in two internal queues, or in a stealer's hands and in a queue.
C3_NeverInBoth ==
    /\ \A a, b \in Workers : a # b => internal[a] \cap internal[b] = {}
    /\ \A a, b \in Workers : hand[b] \notin internal[a]

\* A steal takes one job out of one victim's internal queue.
C3_StealStep ==
    \A b \in Workers : (pc[b] = "n_steal" /\ pc'[b] = "n_put") =>
        \E a \in Workers \ {b} :
            /\ hand'[b] \in internal[a]
            /\ internal'[a] = internal[a] \ {hand'[b]}
            /\ Cardinality(internal'[a]) = Cardinality(internal[a]) - 1
            /\ \A v \in Workers \ {a} : internal'[v] = internal[v]

\* The stolen job becomes the only job of the stealer's internal queue.
C3_PutStep ==
    \A b \in Workers : (pc[b] = "n_put" /\ pc'[b] # "n_put") =>
        /\ internal'[b] = {hand[b]}
        /\ Cardinality(internal'[b]) = 1
        /\ \A v \in Workers \ {b} : internal'[v] = internal[v]

\* C3: a successful steal by worker b takes exactly one job out of exactly
\* one victim's internal queue (a victim holding three jobs then holds two)
\* and leaves every other internal queue as it was; when the stolen job is
\* put on b's internal queue, b holds exactly that one job; and in no state,
\* intermediate or final, is a job in two internal queues, or in a stealer's
\* hands and in a queue.
C3_StealConservation == [](C3_NeverInBoth) /\ [][C3_StealStep /\ C3_PutStep]_vars

\* Worker b has stolen one of the three jobs worker a held: a holds two, and
\* b holds the third in its hands, about to put it on its own queue.
C3_Witness ==
    \E a, b \in Workers :
        /\ a # b
        /\ pc[b] = "n_put" /\ hand[b] # None /\ internal[b] = {}
        /\ Cardinality(internal[a]) = 2
        /\ scheduled = 3 /\ \A j \in 1 .. 3 : runs[j] = 0
        /\ global = {} /\ \A w \in Workers : external[w] = {}

\* ------------------------------------------------------------------------
\* C4: there is no missed wakeup.  A worker in normal mode does not stay
\* parked forever while the global queue or its own external inbox is
\* non-empty, and a worker in exclusive mode does not stay parked forever
\* while its own external inbox is non-empty.
C4_NoMissedWakeup ==
    \A w \in Workers :
        /\ []<>(~(/\ pc[w] = "parked"
                  /\ mode[w] = "Normal"
                  /\ (global # {} \/ external[w] # {})))
        /\ []<>(~(/\ pc[w] = "parked"
                  /\ mode[w] = "Exclusive"
                  /\ external[w] # {}))

\* A job is pushed while the worker it is meant for sleeps: an exclusive-mode
\* worker with a job in its inbox, a normal-mode worker with one in the global
\* queue.
C4_Witness ==
    /\ alive
    /\ \E w \in Workers : pc[w] = "parked" /\ mode[w] = "Exclusive" /\ external[w] # {}
    /\ \E w \in Workers : pc[w] = "parked" /\ mode[w] = "Normal" /\ global # {}

\* ------------------------------------------------------------------------
\* Worker w goes to sleep in this step, in normal mode.
GoesToSleep(w) == pc[w] = "n_park" /\ pc'[w] = "parked"

\* What holds of the step in which a worker goes to sleep.
C5_SleepsOnlyWhenIdle ==
    \A w \in Workers : GoesToSleep(w) =>
        /\ mode[w] = "Normal" /\ alive
        /\ internal[w] = {} /\ external[w] = {} /\ global = {}
        /\ tried[w] = <<"internal", "steal", "external", "global">>

\* C5 (amended): when a normal-mode worker goes to sleep the pool is alive,
\* its own internal queue, its own external inbox and the global queue are
\* empty, and earlier in the same iteration it tried its internal queue, the
\* other workers' queues, its inbox and the global queue, in that order, and
\* found each empty.  Nothing is said of the other workers' internal queues at
\* the time it goes to sleep.
C5_ParkedOnlyWhenIdle == [][C5_SleepsOnlyWhenIdle]_vars

\* At the step in which a worker goes to sleep no queue it can reach holds a job.
C5_EveryQueueEmpty ==
    \A w \in Workers : GoesToSleep(w) =>
        /\ internal[w] = {} /\ external[w] = {} /\ global = {}
        /\ \A v \in Workers \ {w} : internal[v] = {}

\* C5 as stated, read at the time the worker goes to sleep: every other
\* worker's internal queue is empty as well.
C5_AsStated == [][C5_EveryQueueEmpty]_vars

\* A normal-mode worker sleeps, nothing is in its own queue or in the global
\* queue, and another worker's internal queue holds a job.
C5_Witness ==
    \E w \in Workers :
        /\ pc[w] = "parked" /\ mode[w] = "Normal" /\ alive
        /\ internal[w] = {} /\ external[w] = {} /\ global = {}
        /\ \E v \in Workers \ {w} : internal[v] # {}

\* ------------------------------------------------------------------------
\* At each step of normal_iteration, the sources found empty so far.
C6_Order ==
    \A w \in Workers :
        /\ pc[w] = "n_local"  => tried[w] = <<>>
        /\ pc[w] = "n_steal"  => tried[w] = <<"internal">>
        /\ pc[w] = "n_put"    => tried[w] = <<"internal">>
        /\ pc[w] = "n_move"   => tried[w] = <<"internal", "steal">>
        /\ pc[w] = "n_global" => tried[w] = <<"internal", "steal", "external">>
        /\ pc[w] = "g_put"    => tried[w] = <<"internal", "steal", "external">>
        /\ pc[w] = "n_park"   => tried[w] = <<"internal", "steal", "external", "global">>

\* A source that yields a job ends the iteration.
C6_StopsAtFirst ==
    \A w \in Workers :
        /\ (pc[w] = "n_local" /\ pc'[w] # pc[w] /\ internal[w] # {}) => pc'[w] = "job"
        /\ (pc[w] = "n_steal" /\ pc'[w] # pc[w] /\ Victims(w) # {}) => pc'[w] = "n_put"
        /\ (pc[w] = "n_move" /\ pc'[w] # pc[w] /\ external[w] # {}) =>
                pc'[w] = "run" /\ internal'[w] # {} /\ tried'[w] = <<>>
        /\ (pc[w] = "n_global" /\ pc'[w] # pc[w] /\ global # {}) => pc'[w] = "g_put"
        /\ (pc[w] \in {"n_put", "g_put"} /\ pc'[w] # pc[w]) => pc'[w] = "run"
        /\ (pc[w] = "run" /\ pc'[w] # pc[w] /\ mode[w] = "Normal") =>
                pc'[w] \in {"n_local", "stopped"}

\* C6: a normal-mode iteration tries its own internal queue, then the other
\* workers' internal queues, then its own external inbox, then the global
\* queue, and stops at the first that yields a job.  A job is taken from the
\* global queue only after the three earlier sources were tried and found
\* empty; after a drain that moved a job the iteration returns, so that the
\* next source tried is the worker's own internal queue.
C6_SourceOrder == [](C6_Order) /\ [][C6_StopsAtFirst]_vars

\* A worker has taken a job from the global queue, and another worker found
\* nothing in the internal queues but a job in its inbox.
C6_Witness ==
    /\ \E w \in Workers : pc[w] = "g_put" /\ hand[w] # None
    /\ \E w \in Workers : pc[w] = "n_move" /\ external[w] # {}

\* ------------------------------------------------------------------------
\* Job j has left worker w for another worker: that one has stolen it, holds
\* it, executes it or has executed it.
TakenByOther(j, w) ==
    \/ \E v \in Workers \ {w} : hand[v] = j \/ j \in internal[v] \/ cur[v] = j
    \/ runs[j] = 1 /\ Places(j) = 0

\* Worker w returns from enter_exclusive_mode in this step.
EnterReturns(w) == pc[w] = "e_pop" /\ pc'[w] = "job"

\* What holds of the step in which enter_exclusive_mode returns.
C7_AtReturn ==
    \A w \in Workers : EnterReturns(w) =>
        /\ mode'[w] = "Exclusive"
        /\ internal'[w] = {} /\ hand'[w] = None
        /\ external'[w] \cap before[w] = {}
        /\ \A j \in before[w] : cur'[w] # j /\ (j \in global' \/ TakenByOther(j, w))

\* C7 (amended): when enter_exclusive_mode returns the worker is in exclusive
\* mode, its internal queue is empty, its external inbox holds no job that was
\* there before the call, and every job that was in its internal queue or its
\* external inbox before the call is in the global queue or has been taken by
\* another worker.
C7_EnterExclusive == [][C7_AtReturn]_vars

\* At the return every job the queue held is in the global queue.
C7_AllInGlobal ==
    \A w \in Workers : (EnterReturns(w) /\ external[w] = {}) =>
        /\ mode'[w] = "Exclusive"
        /\ internal'[w] = {} /\ external'[w] = {}
        /\ \A j \in before[w] : j \in global'

\* C7 as stated: with no push to the worker's queue during the call (its inbox
\* is empty at the return), every job the queue held before the call is in
\* the global queue.
C7_AsStated == [][C7_AllInGlobal]_vars

\* enter_exclusive_mode is about to return: the worker's queue held an
\* internal and an external job at the call, and both are in the global queue.
C7_Witness ==
    \E w \in Workers :
        /\ pc[w] = "e_pop" /\ internal[w] = {} /\ external[w] = {}
        /\ pinned[w] # {} /\ before[w] \ pinned[w] # {}
        /\ before[w] \subseteq global

\* ------------------------------------------------------------------------
\* At the return the jobs the queue held have left the worker.
C8_Relocated ==
    \A w \in Workers : EnterReturns(w) =>
        /\ internal'[w] = {}
        /\ \A j \in before[w] :
              /\ j \notin internal'[w] \cup external'[w]
              /\ cur'[w] # j /\ hand'[w] # j
              /\ (j \in global' \/ TakenByOther(j, w))

\* In exclusive mode a worker runs only jobs popped from its inbox.
C8_OnlyPinned ==
    \A w \in Workers :
        /\ curMode[w] = "Exclusive" => curSrc[w] = "external"
        /\ (mode[w] = "Exclusive" /\ pc[w] # "job") =>
              /\ internal[w] = {}
              /\ pc[w] \in {"run", "x_local", "x_ext", "x_park", "parked", "stopped"}

C8_PinnedKept ==
    \A w \in Workers : EnterReturns(w) =>
        /\ internal'[w] = {}
        /\ \A j \in before[w] \ pinned[w] : j \in global'
        /\ \A j \in pinned[w] : j \in external'[w]

C9_NothingStealable == \A w \in Workers : mode[w] = "Exclusive" => internal[w] = {}

\* A steal changes the internal queue of a worker in normal mode only.
C9_StealsFromNormal ==
    \A b \in Workers : (pc[b] = "n_steal" /\ pc'[b] = "n_put") =>
        \A a \in Workers : internal'[a] # internal[a] => mode[a] = "Normal"

InExclusiveIteration(w) == pc[w] \in {"x_local", "x_ext", "x_park"}

\* What holds of every step of exclusive_iteration.
C10_Step ==
    \A w \in Workers : (InExclusiveIteration(w) /\ pc'[w] # pc[w]) =>
        /\ mode[w] = "Exclusive"
        /\ global' = global /\ hand' = hand
        /\ \A v \in Workers \ {w} : internal'[v] = internal[v] /\ external'[v] = external[v]
        /\ internal'[w] \subseteq internal[w]
        /\ external'[w] \subseteq external[w]
        /\ Cardinality(external[w] \ external'[w]) <= 1
        /\ cur'[w] # cur[w] => cur'[w] \in internal[w] \cup external[w]
        /\ pc'[w] \in {"job", "x_ext", "x_park", "parked", "run"}
        /\ (pc[w] = "x_park" /\ alive /\ external[w] = {}) => pc'[w] = "parked"

\* C10: an iteration in exclusive mode takes jobs only from the worker's own
\* internal queue and own external inbox.  It never touches the global queue
\* or another worker's queue, never drains the inbox into the internal queue,
\* removes at most one job from the inbox, and parks on an empty inbox whether
\* or not the global queue holds jobs.
C10_ExclusiveIteration == [][C10_Step]_vars

\* A worker in exclusive mode sleeps while the global queue holds jobs, and
\* another one has popped one of the two jobs of its inbox.
C10_Witness ==
    /\ alive /\ global # {}
    /\ \E w \in Workers : pc[w] = "parked" /\ mode[w] = "Exclusive" /\ external[w] = {}

\* ------------------------------------------------------------------------
\* A job leaves the inbox of a worker in exclusive mode only when that worker
\* pops it, alone, in exclusive_iteration and starts to run it.
C11_OnlyOwnerPops ==
    \A w \in Workers : \A j \in external[w] :
        (mode[w] = "Exclusive" /\ j \notin external'[w]) =>
            /\ pc[w] = "x_ext" /\ pc'[w] = "job"
            /\ cur'[w] = j /\ curSrc'[w] = "external"
            /\ external'[w] = external[w] \ {j}
            /\ \A v \in Workers \ {w} : cur'[v] # j /\ hand'[v] # j /\ j \notin internal'[v]
            /\ j \notin global'

\* A job does not stay for ever in the inbox of a worker that stays in
\* exclusive mode in a pool that stays alive: with C11_OnlyOwnerPops, the
\* worker pops it and runs it.
C11_RunByOwner ==
    \A w \in Workers : \A j \in Jobs :
        []<>(~(j \in external[w] /\ mode[w] = "Exclusive" /\ alive))

Leaves(w) == mode[w] = "Exclusive" /\ mode'[w] = "Normal"

\* The step of leave_exclusive_mode changes the mode of that worker only.
C12_Step ==
    \A w \in Workers : Leaves(w) =>
        /\ internal' = internal /\ external' = external /\ global' = global
        /\ alive' = alive
        /\ \A v \in Workers \ {w} : mode'[v] = mode[v]
        /\ pc' = pc /\ cur' = cur /\ hand' = hand

\* C12: leave_exclusive_mode sets the worker's mode to Normal and changes
\* nothing else: the worker's internal queue, its external inbox, the global
\* queue and the liveness flag of the pool are as they were.
C12_LeaveFrame == [][C12_Step]_vars

\* A worker that took its job in exclusive mode is back in normal mode while
\* its inbox and the global queue hold jobs: it has called leave_exclusive_mode.
C12_Witness ==
    \E w \in Workers :
        /\ pc[w] = "job" /\ curMode[w] = "Exclusive" /\ mode[w] = "Normal"
        /\ external[w] # {} /\ global # {} /\ alive

\* ------------------------------------------------------------------------
\* Once the liveness flag is false a run loop begins no iteration and returns;
\* a returned run loop does nothing; nobody goes to sleep.
C13_Step ==
    \A w \in Workers :
        /\ (~alive /\ pc[w] = "run" /\ pc'[w] # "run") => pc'[w] = "stopped"
        /\ (~alive /\ pc[w] # "parked") => pc'[w] # "parked"
        /\ pc[w] = "stopped" =>
              /\ pc'[w] = "stopped" /\ cur'[w] = cur[w] /\ hand'[w] = hand[w]
              /\ mode'[w] = mode[w] /\ external[w] \subseteq external'[w]
        /\ AllStopped =>
              /\ internal' = internal /\ global \subseteq global'
              /\ runs' = runs

\* A returned run loop holds no job; the pool was shut down before it returned.
C13_Stopped ==
    \A w \in Workers : pc[w] = "stopped" => ~alive /\ cur[w] = None /\ hand[w] = None

\* C13 (amended): shutdown is cooperative and does not drain.  The liveness
\* flag is tested once per loop iteration: once it is false a run loop begins
\* no new iteration and returns, but an iteration that was under way when the
\* flag flipped is completed and can still steal a job or process one.  Once
\* every run loop has returned, the jobs still queued stay where they are.
C13_CooperativeShutdown == [](C13_Stopped) /\ [][C13_Step]_vars

\* C13 as stated: once the liveness flag is false no run loop starts a job and
\* no job leaves the internal queue it is in.
C13_NoFurtherJob ==
    ~alive =>
        /\ \A w \in Workers : cur'[w] # cur[w] => cur'[w] = None
        /\ \A w \in Workers : internal[w] \subseteq internal'[w]

C13_AsStated == [][C13_NoFurtherJob]_vars

\* Every run loop has returned and left a job in an internal queue, another
\* in the global queue.
C13_Witness ==
    /\ AllStopped
    /\ \E w \in Workers : internal[w] # {}
    /\ global # {}
    /\ \E j \in Jobs : runs[j] = 1

\* ------------------------------------------------------------------------
\* Block invocation.

\* Instruction i names a register that holds the block.
OnBlock(i) == get_register(i.block) = BlockPointer

\* Every argument register instruction i supplies holds a value.
ArgumentsSet(i) == \A k \in 1 .. Len(i.args) : context.regs[i.args[k]] # Unset

\* The context on top of the call stack after the step.
NewContext == stack'[Len(stack')]

\* The argument values instruction i supplies, in the order it supplies them.
Supplied(i) == [k \in 1 .. Len(i.args) |-> context.regs[i.args[k]]]

C14_Step ==
    LET i == instr' IN
        (run_block(i) /\ OnBlock(i) /\ Len(i.args) > block.total /\ ~block.rest)
            => result' = "TooManyArguments"

C15_Step ==
    LET i == instr' IN
        (run_block(i) /\ OnBlock(i) /\ Len(i.args) < block.required)
            => result' = "TooFewArguments"

\* C15: run_block fails with the too-few-arguments error whenever the
\* instruction supplies fewer argument registers than the block requires.
C15_TooFew == [][C15_Step]_vars

\* A block was given one argument less than it requires, and run_block failed
\* with the too-few-arguments error.
C15_Witness ==
    /\ result = "TooFewArguments"
    /\ Len(instr.args) + 1 = block.required

C16_Step ==
    LET i == instr' IN
        (/\ run_block(i) /\ OnBlock(i)
         /\ \/ Len(i.args) > block.total /\ ~block.rest
            \/ Len(i.args) < block.required)
            => /\ result' \in {"TooManyArguments", "TooFewArguments"}
               /\ stack' = stack
               /\ heap' = heap
               /\ block' = block

\* C16: when run_block fails the arity validation, the call stack with the
\* registers of every context, and every binding, are what they were before
\* the instruction: no context is pushed, no register is written and no
\* binding is modified.
C16_NoPartialState == [][C16_Step]_vars

\* run_block has failed the arity validation of a call made from an invoked
\* block's caller, after an earlier invocation returned a value.
C16_Witness ==
    /\ result \in {"TooManyArguments", "TooFewArguments"}
    /\ Len(stack) = 1 /\ line = InstructionLine
    /\ stack[1].regs[2] = Object(1)

C17_Step ==
    LET i == instr' IN
        (/\ run_block(i) /\ OnBlock(i) /\ ArgumentsSet(i) /\ ~block.rest
         /\ block.required <= Len(i.args) /\ Len(i.args) <= block.total)
            => /\ result' = "EnterContext"
               /\ Len(stack') = Len(stack) + 1
               /\ SubSeq(stack', 1, Len(stack)) = stack
               /\ NewContext.ret = i.dest

C18_Step ==
    LET i == instr' IN
        (/\ run_block(i) /\ ~block.rest /\ result' = "EnterContext")
            => /\ Len(heap'[NewContext.binding].locals) = Len(i.args)
               /\ \A k \in 1 .. Len(i.args) :
                     heap'[NewContext.binding].locals[k] = context.regs[i.args[k]]
               /\ Len(i.args) = 0 => heap'[NewContext.binding].locals = <<>>

C19_Step ==
    LET i == instr' IN
        (/\ run_block(i) /\ OnBlock(i) /\ ArgumentsSet(i) /\ block.rest
         /\ Len(i.args) >= block.total)
            => /\ result' = "EnterContext"
               /\ Len(stack') = Len(stack) + 1
               /\ Len(heap'[NewContext.binding].locals) = block.total + 1
               /\ heap'[NewContext.binding].locals[block.total + 1] =
                     Array([k \in 1 .. (Len(i.args) - block.total) |->
                              Supplied(i)[block.total + k].id])

C19_AsStated == [][C19_Step]_vars

C20_Step ==
    LET i == instr' IN
        (run_block(i) /\ result' = "EnterContext")
            => /\ NewContext.binding \notin 1 .. Len(heap)
               /\ NewContext.binding # block.binding
               /\ \A c \in 1 .. Len(stack) : stack[c].binding # NewContext.binding
               /\ heap'[NewContext.binding].locals = Supplied(i)
               /\ heap'[NewContext.binding].parent = block.binding
               /\ \A b \in 1 .. Len(heap) : heap'[b] = heap[b]
               /\ block' = block

C21_Invocation ==
    LET i == instr' IN
        (run_block(i) /\ result' = "EnterContext")
            => /\ stack'[Len(stack)].regs = context.regs
               /\ NewContext.ret = i.dest

\* A register of a context that stays on the call stack changes only in the
\* step in which the context above it returns, and then it is that context's
\* return register, in the context directly below it.
C21_WrittenAtReturn ==
    \A c \in 1 .. Len(stack) :
        (c <= Len(stack') /\ stack'[c].regs # stack[c].regs)
            => /\ result' = "Return"
               /\ Len(stack') = Len(stack) - 1
               /\ c = Len(stack')
               /\ \A r \in Registers :
                     stack'[c].regs[r] # stack[c].regs[r] => r = context.ret

\* C21: run_block itself never writes the destination register: after a
\* successful run_block the destination register, like every register of the
\* caller, holds the value it held before, the pushed context records the
\* destination as its return register, and a register of the caller is
\* written only when the pushed context returns a value to it.
C21_DestinationAtReturn == [][C21_Invocation /\ C21_WrittenAtReturn]_vars

\* A block invoked with register 2 as destination has returned: register 2
\* of the caller now holds the returned object, which it cannot hold before.
C21_Witness ==
    /\ result = "Return" /\ Len(stack) = 1
    /\ instr.dest = 2
    /\ stack[1].regs[2] = Object(1)
    /\ stack[1].regs[0] = BlockPointer

\* ------------------------------------------------------------------------
\* The bytecode file registry.

\* Process p takes a step of the instruction it is executing.
Steps(p) == ip'[p] # ip[p] \/ executed'[p] # executed[p]

\* Every CompiledCode get_or_set has returned for a path is the one the
\* registry holds for it, and the parse routine made one at most once.
C22_OneCode ==
    \A path \in Paths :
        /\ returned[path] \subseteq {file_registry[path]} \ {NoCode}
        /\ loaded[path] <= 1

\* Once a path is in the registry its entry stays, and the parse routine
\* does not run for it again.
C22_NeverReparsed ==
    \A path \in Paths :
        file_registry[path] # NoCode
            => /\ file_registry'[path] = file_registry[path]
               /\ parses'[path] = parses[path]

C23_ExclusiveInsert ==
    /\ \A p \in Procs :
          ip[p] = "pf_insert"
              => /\ rwlock.writer = p /\ rwlock.readers = {}
                 /\ \A q \in Procs \ {p} : ~Inside(q)
    /\ \A path \in inserting :
          \E p \in Procs : ip[p] = "pf_insert" /\ temp[p].path = path

\* A process that file_parsed has answered true for a path: the path is in
\* the registry, with its complete entry or with its entry being written.
C23_AnsweredTrue ==
    \A p \in Procs :
        (operands[p].op = "FileParsed" /\ outcome[p] = "None"
         /\ registers[p][0] = Boolean(TRUE))
            => file_registry[temp[p].path] # NoCode

\* get_or_set for a path that is in the registry returns the entry, which is
\* complete, and does not parse.
C23_CachedLookup ==
    \A p \in Procs :
        (ip[p] = "pf_get" /\ Steps(p) /\ contains_path(temp[p].path))
            => /\ temp'[p].code = file_registry[temp[p].path]
               /\ temp[p].path \notin inserting
               /\ ~temp'[p].err
               /\ parses' = parses
               /\ file_registry' = file_registry

\* C23: population of the registry is exclusive and atomic to observers:
\* while one caller is inserting an entry no other caller is inside the
\* registry, reading or writing, and a caller for whom file_parsed(path) is
\* true obtains the complete CompiledCode from get_or_set(path) without a
\* parse.
C23_AtomicPopulation ==
    [](C23_ExclusiveInsert /\ C23_AnsweredTrue) /\ [][C23_CachedLookup]_vars

\* One process is inserting the entry of a path while the other waits with a
\* file_parsed for the read section.
C23_Witness ==
    \E p, q \in Procs :
        /\ ip[p] = "pf_insert" /\ ip[q] = "fp_lock"
        /\ temp[q].path = temp[p].path

\* A process inside get_or_set is the writer and is alone in the registry; a
\* process inside contains_path is one of the readers and there is no writer.
C24_Sections ==
    \A p \in Procs :
        /\ ip[p] \in {"pf_get", "pf_insert", "pf_unlock"}
              => /\ rwlock.writer = p /\ rwlock.readers = {}
                 /\ \A q \in Procs \ {p} : ~Inside(q)
        /\ ip[p] \in {"fp_contains", "fp_unlock"}
              => /\ p \in rwlock.readers /\ rwlock.writer = NoProc

\* C24: lookups by file_parsed proceed under the shared read section: two of
\* them can be inside the registry at the same time.  parse_file takes the
\* exclusive write section for every get_or_set, also for a path that is
\* already in the registry, so a parse_file call is never inside the
\* registry together with another call.
C24_ReadersShareWritersExclude == [](C24_Sections)

\* C24 as stated: a parse_file call for a path that is already in the
\* registry does not hold the exclusive write section.
C24_AsStated ==
    \A p \in Procs :
        (ip[p] = "pf_get" /\ contains_path(temp[p].path)) => rwlock.writer # p

\* Two file_parsed calls for a cached path are inside the registry together.
C24_Witness ==
    /\ \A p \in Procs : ip[p] = "fp_contains" /\ contains_path(temp[p].path)
    /\ rwlock.readers = Procs

\* The parse of process p fails in this step.
C25_ParseFailed(p) == ip[p] = "pf_get" /\ ~temp[p].err /\ temp'[p].err

\* A failed parse leaves the registry as it was, without an entry for the
\* path, and the call yields the LoadError; a call for a path without entry
\* runs the parse routine, whatever happened before.
C25_Step ==
    \A p \in Procs :
        /\ C25_ParseFailed(p)
              => /\ file_registry' = file_registry
                 /\ inserting' = inserting
                 /\ ~contains_path(temp[p].path)
                 /\ ip'[p] = "pf_unlock"
        /\ (ip[p] = "pf_unlock" /\ Steps(p) /\ temp[p].err)
              => /\ outcome'[p] = "LoadError"
                 /\ file_registry' = file_registry
                 /\ inserting' = inserting
                 /\ file_registry'[temp[p].path] = NoCode
                 /\ registers' = registers
        /\ (ip[p] = "pf_get" /\ Steps(p) /\ ~contains_path(temp[p].path))
              => /\ parses'[temp[p].path] = parses[temp[p].path] + 1
                 /\ disk[temp[p].path] => ip'[p] = "pf_insert"

C26_Step ==
    \A p \in Procs :
        /\ (ip[p] = "fp_contains" /\ Steps(p))
              => temp'[p].found = contains_path(temp[p].path)
        /\ (ip[p] = "fp_set" /\ Steps(p))
              => /\ registers'[p][operands[p].dest] = Boolean(temp[p].found)
                 /\ outcome'[p] = "None"
                 /\ \A r \in Registers \ {operands[p].dest} :
                       registers'[p][r] = registers[p][r]
        /\ ((ip[p] \in {"fp_lock", "fp_contains", "fp_unlock", "fp_set"}
             \/ operands'[p].op = "FileParsed") /\ Steps(p))
              => /\ file_registry' = file_registry
                 /\ inserting' = inserting
                 /\ parses' = parses
                 /\ loaded' = loaded

\* C26: file_parsed writes to dest the true object exactly when the path is
\* in the registry at the lookup and the false object otherwise, and leaves
\* the registry unchanged: it never parses a file and never inserts an
\* entry.
C26_PureMembership == [][C26_Step]_vars

\* A process has executed two instructions, the last one a file_parsed that
\* answered false, and no file has been parsed.
C26_Witness ==
    \E p \in Procs :
        /\ executed[p] = 2 /\ ip[p] = "idle"
        /\ operands[p].op = "FileParsed" /\ outcome[p] = "None"
        /\ registers[p][0] = Boolean(FALSE)
        /\ \A path \in Paths : parses[path] = 0 /\ ~contains_path(path)

\* parse_file returns: on success dest holds a Block of the registry's
\* CompiledCode for the path with a new, empty binding, the other registers
\* and the call stack are as before and the path is in the registry; on
\* failure no register has changed.
C27_Step ==
    \A p \in Procs :
        /\ (ip[p] = "pf_set" /\ Steps(p))
              => LET b == registers'[p][operands[p].dest].binding IN
                 /\ outcome'[p] = "None"
                 /\ registers'[p][operands[p].dest] =
                       BlockObject(file_registry[temp[p].path], b)
                 /\ file_registry'[temp[p].path] # NoCode
                 /\ b \notin 1 .. Len(bindings)
                 /\ \A q \in Procs : \A r \in Registers : registers[q][r].binding # b
                 /\ bindings'[b] = <<>>
                 /\ \A r \in Registers \ {operands[p].dest} :
                       registers'[p][r] = registers[p][r]
                 /\ depth' = depth
        /\ (Steps(p) /\ outcome'[p] = "LoadError" /\ operands'[p].op = "ParseFile")
              => /\ registers' = registers
                 /\ depth' = depth

\* A process that parse_file has handed a Block holds the CompiledCode the
\* registry has for the path.
C27_Parsed ==
    \A p \in Procs :
        (operands[p].op = "ParseFile" /\ outcome[p] = "None")
            => /\ contains_path(temp[p].path)
               /\ registers[p][operands[p].dest].kind = "block"
               /\ registers[p][operands[p].dest].id = file_registry[temp[p].path]

C30_Waiting(w) ==
    /\ alive /\ mode[w] = "Normal" /\ cur[w] = None
    /\ internal[w] = {}
    /\ global # {} \/ external[w] # {}

\* An iteration of normal mode that comes to its external inbox and finds
\* jobs there moves all of them to the worker's internal queue; one that
\* comes to the global queue and finds jobs there takes one; and a job of the
\* internal queue is run when the iteration finds it.
C30_Step ==
    \A w \in Workers :
        /\ (pc[w] = "n_move" /\ pc'[w] # pc[w] /\ external[w] # {})
              => /\ internal'[w] = internal[w] \cup external[w]
                 /\ external'[w] = {}
                 /\ pc'[w] = "run"
        /\ (pc[w] = "n_global" /\ pc'[w] # pc[w] /\ global # {})
              => /\ hand'[w] \in global
                 /\ global' = global \ {hand'[w]}
                 /\ pc'[w] = "g_put"
        /\ (pc[w] = "n_local" /\ pc'[w] # pc[w] /\ internal[w] # {})
              => /\ pc'[w] = "job"
                 /\ cur'[w] \in internal[w]

C31_Step ==
    \A w \in Workers :
        (/\ pc[w] = "n_steal" /\ pc'[w] # pc[w]
         /\ \E v \in Workers \ {w} : internal[v] # {})
            => /\ pc'[w] = "n_put"
               /\ \E v \in Workers \ {w} :
                     /\ hand'[w] \in internal[v]
                     /\ internal'[v] = internal[v] \ {hand'[w]}

\* A worker that holds a stolen job puts it on its own internal queue.
C31_Put ==
    \A w \in Workers :
        (pc[w] = "n_put" /\ pc'[w] # pc[w])
            => /\ internal'[w] = internal[w] \cup {hand[w]}
               /\ hand'[w] = None

C35_During ==
    \A w \in Workers :
        pc[w] \in {"e_pop", "e_push"} => external[w] \subseteq external'[w]

\* At the return of enter_exclusive_mode the worker's internal queue is
\* empty, and a job in its inbox was pushed during the call, is nowhere else
\* and has not been run.
C35_AtReturn ==
    \A w \in Workers : EnterReturns(w) =>
        /\ internal'[w] = {}
        /\ \A j \in external'[w] :
              /\ j \notin before[w]
              /\ Places(j)' = 1
              /\ j \notin global'
              /\ runs'[j] = 0

\* Every scheduled job that has not been run is in exactly one place.
C35_NotLost ==
    \A j \in 1 .. scheduled : runs[j] = 0 => Places(j) = 1

\* C35: a job pushed to worker W's external inbox by another thread while W
\* is executing enter_exclusive_mode is neither lost nor duplicated: it stays
\* in W's inbox during the call, after the call it is in exactly one place,
\* W's external inbox, and W's internal queue is empty.
C35_PushDuringEnter == [](C35_NotLost) /\ [][C35_During /\ C35_AtReturn]_vars

\* enter_exclusive_mode is about to return; the jobs its queue held at the
\* call have gone to the global queue, and its inbox holds a job that was
\* pushed during the call.
C35_Witness ==
    \E w \in Workers :
        /\ pc[w] = "e_pop" /\ internal[w] = {}
        /\ before[w] # {} /\ before[w] \subseteq global
        /\ external[w] # {} /\ external[w] \cap before[w] = {}

\* ------------------------------------------------------------------------
\* Shutdown.

\* Once the liveness flag is false, a worker at the head of its loop leaves
\* the loop and a worker about to park does not go to sleep.
C36_Step ==
    \A w \in Workers :
        /\ (~alive /\ pc[w] = "run" /\ pc'[w] # pc[w]) => pc'[w] = "stopped"
        /\ (~alive /\ pc[w] \in {"n_park", "x_park"} /\ pc'[w] # pc[w]) => pc'[w] = "run"
        /\ (~alive /\ pc[w] = "parked" /\ pc'[w] # pc[w]) => pc'[w] = "run"

\* Worker w is inside machine.run, executing a process.
C36_InProcess(w) == pc[w] \in {"job", "e_pop", "e_push"}

HandlerReturns == result' # result \/ instr' # instr \/ stack' # stack

\* C32 as stated: whenever a block-invocation handler, run_block or
\* run_block_with_rest, returns the enter-context action, a new context has
\* been pushed: the call stack is exactly one frame deeper than before the
\* instruction.
C32_Step ==
    (HandlerReturns /\ result' = "EnterContext")
        => /\ Len(stack') = Len(stack) + 1
           /\ SubSeq(stack', 1, Len(stack)) = stack

C32_AsStated == [][C32_Step]_vars

\* run_block passes the arity validation and fails at an argument register.
C33_FailsAfterValidation(i) ==
    /\ run_block(i) /\ OnBlock(i)
    /\ block.required <= Len(i.args) /\ Len(i.args) <= block.total
    /\ ~ArgumentsSet(i)

C33_Step ==
    LET i == instr' IN
        C33_FailsAfterValidation(i)
            => /\ result' = "UndefinedRegister"
               /\ stack' = stack
               /\ heap' = heap
               /\ block' = block

C34_Step ==
    LET i == instr' IN
        (run_block(i) /\ result' = "EnterContext")
            => /\ Len(heap'[NewContext.binding].locals) = Len(i.args)
               /\ Len(heap'[NewContext.binding].locals) <= block.locals

C34_Declared ==
    LET i == instr' IN
        (run_block(i) /\ result' = "EnterContext")
            => Len(heap'[NewContext.binding].locals) = block.locals

ImportLists ==
    {l \in SeqUpTo(ModuleNames, MaxImports) :
        \A k, n \in 1 .. Len(l) : l[k] = l[n] => k = n}

\* import with the insertion of None before the build left out.
RecordedAtReturn(m) == modules

\* import: self.modules.insert(mod_name.clone(), None)
Recorded(m) == [modules EXCEPT ![m] = "none"]

\* import: self.modules.get(&mod_name).is_none()
NotInMap(m) == modules[m] = "absent"

\* The call of build that is processing nodes.
Building == frames[Len(frames)]

\* The module named by the next import expression of the file being processed.
NextImport == Head(Building.todo)

\* The file being processed has an import expression left.
AtImport == frames # <<>> /\ Building.todo # <<>>

\* process_node went past the import expression.
ImportDone == [frames EXCEPT ![Len(frames)].todo = Tail(@)]

\* import: the Expression returned for a name that is in the map.
ImportExpression(entry) == IF entry = "some" THEN "ImportModule" ELSE "Void"

\* build_main: build is called for the main module without an entry in the
\* map; the file does not parse, or it parses to a list of imports.
BuildMain ==
    /\ ~started
    /\ started' = TRUE
    /\ builds' = [builds EXCEPT ![MainModule] = @ + 1]
    /\ \/ UNCHANGED frames
       \/ \E ast \in ImportLists :
            frames' = <<[name |-> MainModule, by |-> "main", ast |-> ast, todo |-> ast]>>
    /\ UNCHANGED <<modules, expression>>
    /\ UNCHANGED <<sched, exec, files>>

\* import of a name that is in the map: nothing is built.
ImportKnown ==
    /\ AtImport
    /\ ~NotInMap(NextImport)
    /\ expression' = ImportExpression(modules[NextImport])
    /\ frames' = ImportDone
    /\ UNCHANGED <<modules, builds, started>>
    /\ UNCHANGED <<sched, exec, files>>

\* import of a new name whose file is in no source directory.
ImportNotFound ==
    /\ AtImport
    /\ NotInMap(NextImport)
    /\ modules' = Recorded(NextImport)
    /\ expression' = "Void"
    /\ frames' = ImportDone
    /\ UNCHANGED <<builds, started>>
    /\ UNCHANGED <<sched, exec, files>>

\* import of a new name whose file is found but does not parse: build returns
\* None and that is inserted.
ImportFailed ==
    /\ AtImport
    /\ NotInMap(NextImport)
    /\ modules' = Recorded(NextImport)
    /\ builds' = [builds EXCEPT ![NextImport] = @ + 1]
    /\ expression' = "Void"
    /\ frames' = ImportDone
    /\ UNCHANGED started
    /\ UNCHANGED <<sched, exec, files>>

\* import of a new name whose file is found and parses: build processes its
\* nodes.
ImportBuilds ==
    /\ AtImport
    /\ NotInMap(NextImport)
    /\ modules' = Recorded(NextImport)
    /\ builds' = [builds EXCEPT ![NextImport] = @ + 1]
    /\ \E ast \in ImportLists :
         frames' = Append(frames, [name |-> NextImport, by |-> "import",
                                   ast |-> ast, todo |-> ast])
    /\ UNCHANGED <<started, expression>>
    /\ UNCHANGED <<sched, exec, files>>

\* build has processed every node of the file and returns the module: to
\* build_main, or to import, which inserts it and goes on after the import.
BuildReturns ==
    /\ frames # <<>>
    /\ Building.todo = <<>>
    /\ IF Building.by = "main"
       THEN /\ frames' = <<>>
            /\ UNCHANGED <<modules, expression>>
       ELSE /\ modules' = [modules EXCEPT ![Building.name] = "some"]
            /\ expression' = "ImportModule"
            /\ frames' = [SubSeq(frames, 1, Len(frames) - 1) EXCEPT
                            ![Len(frames) - 1].todo = Tail(@)]
    /\ UNCHANGED <<builds, started>>
    /\ UNCHANGED <<sched, exec, files>>

\* A Builder that has compiled nothing.
ImportInit ==
    /\ PoolInit
    /\ RegistryInit
    /\ BuilderNew
    /\ disk = [p \in Paths |-> TRUE]
    /\ block = [total |-> 0, required |-> 0, rest |-> FALSE, locals |-> 0, binding |-> 1]
    /\ stack = <<[binding |-> 1, ret |-> NoRegister, regs |-> [r \in Registers |-> Unset]]>>
    /\ heap = <<[locals |-> <<>>, parent |-> NoBinding]>>
    /\ line = 1
    /\ instr = [line |-> 1, dest |-> 0, block |-> 0, args |-> <<>>]
    /\ result = "none"

ImportNext ==
    \/ BuildMain
    \/ ImportKnown
    \/ ImportNotFound
    \/ ImportFailed
    \/ ImportBuilds
    \/ BuildReturns

\* The compilation of one program.
ImportSpec == ImportInit /\ [][ImportNext]_vars

\* The compiler's thread keeps running until build_main has returned.
FairImportSpec == ImportSpec /\ WF_vars(ImportNext)

\* How often import has called build for module m.
BuildsByImport(m) ==
    IF m = MainModule /\ started THEN builds[m] - 1 ELSE builds[m]

\* An import of m calls build only if m is not in the map, and m is in the map
\* from then on, before a node of its file is processed; a name in the map
\* stays in it.
C37_Step ==
    \A m \in ModuleNames :
        /\ (AtImport /\ builds'[m] > builds[m])
              => NotInMap(m) /\ modules'[m] # "absent"
        /\ ~NotInMap(m) => modules'[m] # "absent" /\ builds'[m] = builds[m]

\* import has built every name at most once, and the calls of build in
\* progress are for different imported names.
C37_Once ==
    /\ \A m \in ModuleNames : BuildsByImport(m) <= 1
    /\ \A k, l \in 2 .. Len(frames) : frames[k].name = frames[l].name => k = l
    /\ \A k \in 2 .. Len(frames) : modules[frames[k].name] = "none"

\* build_main has returned.
C37_Compiled == started /\ frames = <<>>

\* C37: in the compiler's Builder, importing terminates also when the imports
\* form a cycle, and import builds each module name at most once: import
\* records the name in the modules map before it builds it, and an import of
\* a name that is in the map, being built, built or not found, starts no
\* build of it.
C37_ImportTerminates ==
    /\ []C37_Once
    /\ [][C37_Step]_vars
    /\ <>[]C37_Compiled

\* The imports form a cycle: module 2, imported by the main module, is being
\* built and imports module 3, which is being built and has imported module
\* 2; that import built nothing and returned Void.
C37_Witness ==
    /\ Len(frames) = 3
    /\ frames[1].ast = <<2>>
    /\ frames[2].name = 2 /\ frames[2].ast = <<3>>
    /\ frames[3].name = 3 /\ frames[3].ast = <<2>> /\ frames[3].todo = <<>>
    /\ modules[2] = "none" /\ builds[2] = 1
    /\ expression = "Void"

====
